---- MODULE Spec2Model ----
(***************************************************************************)
(* Account-state and payment-settlement core of the m2 auction-house       *)
(* program (programs/m2/src/utils/generic.rs): the trade-state lifecycle   *)
(* routines, the fee distribution engine, escrow reclamation and           *)
(* close_account_anchor, over a small ledger of accounts.                  *)
(*                                                                         *)
(* Integers are scaled: a u64 has U64_BITS bits here, so that the 128-bit  *)
(* products of the fee engine stay inside the model checker's integers.    *)
(* Basis points keep their 16 bits and the divisor keeps its value 10000.  *)
(***************************************************************************)
EXTENDS Integers, Sequences, FiniteSets, TLC

VARIABLES acct, auction_house, args, tx, pre, ret, log, calls

vars == <<acct, auction_house, args, tx, pre, ret, log, calls>>

----------------------------------------------------------------------------
(* Bounds of the model *)

\* width of a u64 in the model (64 in the program)
U64_BITS == 14

\* Rent sysvar: lamports per byte-year
LamportsPerByteYear == 1

\* calls of the payment operations per behaviour
MaxCalls == 2

----------------------------------------------------------------------------
(* Integer types *)

U64_MAX == (2 ^ U64_BITS) - 1

U16_MAX == (2 ^ 16) - 1

\* u128 holds every product of a u16 and a u64 (16 + 64 <= 128)
U128_MAX == U64_MAX * (U16_MAX + 1) + U16_MAX

\* the None of a checked operation (every value is >= 0)
None == 0 - 1

\* u128::checked_mul: None when the product does not fit
checked_mul(a, b) ==
    IF a = None THEN None
    ELSE IF b # 0 /\ a > U128_MAX \div b THEN None ELSE a * b

\* u128::checked_div: None on a zero divisor
checked_div(a, d) ==
    IF a = None \/ d = 0 THEN None ELSE a \div d

\* mutant of checked_sub: the difference saturates at 0
checked_sub_saturating(a, b) ==
    IF a = None THEN None ELSE IF a < b THEN 0 ELSE a - b

\* u128::checked_sub: None when the difference is negative
checked_sub(a, b) ==
    IF a = None \/ a < b THEN None ELSE a - b

\* `x as u64` on a u128: keeps the low 64 bits
as_u64(x) == x % (U64_MAX + 1)

\* u64::saturating_sub
saturating_sub(a, b) == IF a >= b THEN a - b ELSE 0

----------------------------------------------------------------------------
(* Program constants *)

\* length of an anchor discriminator, the [0..8] slices of the source
DISCRIMINATOR_LEN == 8

\* divisor of a basis-point rate
BASIS_POINTS == 10000

\* SellerTradeState::LEN, SellerTradeStateV2::LEN (legacy and current record)
SellerTradeState_LEN == 10

SellerTradeStateV2_LEN == 12

\* BuyerTradeState::LEN, BuyerTradeStateV2::LEN
BuyerTradeState_LEN == 11

BuyerTradeStateV2_LEN == 13

\* the 8-byte tags anchor derives for the two V2 records
SellerTradeStateV2_discriminator == <<164, 14, 92, 100, 123, 57, 234, 204>>

BuyerTradeStateV2_discriminator == <<195, 55, 46, 41, 54, 7, 225, 155>>

\* the tags of the legacy records
SellerTradeState_discriminator == <<1, 238, 72, 137, 138, 21, 254, 249>>

BuyerTradeState_discriminator == <<200, 164, 153, 187, 118, 60, 200, 51>>

\* Rent::minimum_balance(data_len): (overhead + len) * per-byte-year * threshold
ACCOUNT_STORAGE_OVERHEAD == 128

EXEMPTION_THRESHOLD == 2

minimum_balance(data_len) ==
    (ACCOUNT_STORAGE_OVERHEAD + data_len) * LamportsPerByteYear * EXEMPTION_THRESHOLD

----------------------------------------------------------------------------
(* Accounts *)

TradeAccounts == {"sts", "bts"}

PayAccounts == {"escrow", "buyer", "buyer_referral", "seller_referral", "treasury"}

Accounts == TradeAccounts \cup {"payer", "dest"} \cup PayAccounts

\* an AccountInfo: lamports, data buffer, owning program
Account(l, d, o) == [lamports |-> l, data |-> d, owner |-> o]

Zeros(n) == [i \in 1..n |-> 0]

\* data[0..8]
Tag(data) == SubSeq(data, 1, DISCRIMINATOR_LEN)

\* mutant of WriteTag: the tag is not written
WriteTag_skipped(data, bytes) == data

\* data[0..8].copy_from_slice(bytes)
WriteTag(data, bytes) ==
    [i \in 1..Len(data) |-> IF i <= Len(bytes) THEN bytes[i] ELSE data[i]]

\* AccountInfo::realloc(new_len, true): the added bytes are zero
Realloc(data, new_len) ==
    [i \in 1..new_len |-> IF i <= Len(data) THEN data[i] ELSE 0]

----------------------------------------------------------------------------
(* Sub-instructions of the system program.  A step is the state of a call  *)
(* in progress: the accounts, the result so far, the instructions issued.  *)

Begin(a) == [acct |-> a, res |-> "Ok", log |-> <<>>, value |-> 0]

Fail(st, err) == [st EXCEPT !.res = err]

Instr(kind, from, to, amount) ==
    [kind |-> kind, from |-> from, to |-> to, amount |-> amount]

\* system_instruction::transfer(from, to, amount), invoked
SystemTransfer(st, from, to, amount) ==
    LET a == st.acct
        issued == [st EXCEPT !.log = Append(@, Instr("transfer", from, to, amount))]
    IN  IF Len(a[from].data) > 0 THEN Fail(issued, "InvalidArgument")
        ELSE IF a[from].lamports < amount THEN Fail(issued, "InsufficientFunds")
        ELSE IF a[to].lamports + amount > U64_MAX THEN Fail(issued, "ArithmeticOverflow")
        ELSE [issued EXCEPT !.acct[from].lamports = @ - amount,
                            !.acct[to].lamports = @ + amount]

\* system_instruction::create_account(payer, new, lamports, space, owner), invoked
SystemCreateAccount(st, payer, new, lamports, space) ==
    LET a == st.acct
        issued == [st EXCEPT !.log = Append(@, Instr("create_account", payer, new, lamports))]
    IN  IF a[new].lamports > 0 \/ Len(a[new].data) > 0 \/ a[new].owner # "system"
        THEN Fail(issued, "AccountAlreadyInUse")
        ELSE IF a[payer].lamports < lamports THEN Fail(issued, "InsufficientFunds")
        ELSE [issued EXCEPT !.acct[payer].lamports = @ - lamports,
                            !.acct[new] = Account(lamports, Zeros(space), "program")]

----------------------------------------------------------------------------
(* Trade-state lifecycle *)

\* mutant of create_or_realloc_seller_trade_state: the migration does not
\* transfer the missing lamports
create_or_realloc_seller_trade_state_unfunded(a) ==
    LET s0 == Begin(a)
        required_lamports ==
            saturating_sub(minimum_balance(SellerTradeStateV2_LEN), a["sts"].lamports)
    IN  IF Len(a["sts"].data) = 0 THEN
            LET s1 == SystemCreateAccount(s0, "payer", "sts", required_lamports,
                                          SellerTradeStateV2_LEN)
            IN  IF s1.res # "Ok" THEN s1
                ELSE [s1 EXCEPT !.acct["sts"].data = WriteTag(@, SellerTradeStateV2_discriminator)]
        ELSE IF Len(a["sts"].data) = SellerTradeState_LEN THEN
            LET s1 == [s0 EXCEPT !.acct["sts"].data =
                                     Realloc(Zeros(SellerTradeState_LEN), SellerTradeStateV2_LEN)]
                s2 == s1
            IN  IF s2.res # "Ok" THEN s2
                ELSE [s2 EXCEPT !.acct["sts"].data = WriteTag(@, SellerTradeStateV2_discriminator)]
        ELSE IF Len(a["sts"].data) < DISCRIMINATOR_LEN THEN
            Fail(s0, "Panic")
        ELSE IF Tag(a["sts"].data) = SellerTradeStateV2_discriminator THEN s0
        ELSE Fail(s0, "InvalidAccountState")

\* mutant of create_or_realloc_seller_trade_state: every record of at least
\* the legacy length is migrated
create_or_realloc_seller_trade_state_at_least(a) ==
    LET s0 == Begin(a)
        required_lamports ==
            saturating_sub(minimum_balance(SellerTradeStateV2_LEN), a["sts"].lamports)
    IN  IF Len(a["sts"].data) = 0 THEN
            LET s1 == SystemCreateAccount(s0, "payer", "sts", required_lamports,
                                          SellerTradeStateV2_LEN)
            IN  IF s1.res # "Ok" THEN s1
                ELSE [s1 EXCEPT !.acct["sts"].data = WriteTag(@, SellerTradeStateV2_discriminator)]
        ELSE IF Len(a["sts"].data) >= SellerTradeState_LEN THEN
            LET s1 == [s0 EXCEPT !.acct["sts"].data =
                                     Realloc(Zeros(SellerTradeState_LEN), SellerTradeStateV2_LEN)]
                s2 == IF required_lamports > 0
                      THEN SystemTransfer(s1, "payer", "sts", required_lamports)
                      ELSE s1
            IN  IF s2.res # "Ok" THEN s2
                ELSE [s2 EXCEPT !.acct["sts"].data = WriteTag(@, SellerTradeStateV2_discriminator)]
        ELSE IF Len(a["sts"].data) < DISCRIMINATOR_LEN THEN
            Fail(s0, "Panic")
        ELSE IF Tag(a["sts"].data) = SellerTradeStateV2_discriminator THEN s0
        ELSE Fail(s0, "InvalidAccountState")

\* mutant of create_or_realloc_seller_trade_state: the migration writes the
\* discriminator before it transfers the missing lamports
create_or_realloc_seller_trade_state_tag_first(a) ==
    LET s0 == Begin(a)
        required_lamports ==
            saturating_sub(minimum_balance(SellerTradeStateV2_LEN), a["sts"].lamports)
    IN  IF Len(a["sts"].data) = 0 THEN
            LET s1 == SystemCreateAccount(s0, "payer", "sts", required_lamports,
                                          SellerTradeStateV2_LEN)
            IN  IF s1.res # "Ok" THEN s1
                ELSE [s1 EXCEPT !.acct["sts"].data = WriteTag(@, SellerTradeStateV2_discriminator)]
        ELSE IF Len(a["sts"].data) = SellerTradeState_LEN THEN
            LET s1 == [s0 EXCEPT !.acct["sts"].data =
                                     WriteTag(Realloc(Zeros(SellerTradeState_LEN),
                                                      SellerTradeStateV2_LEN),
                                              SellerTradeStateV2_discriminator)]
            IN  IF required_lamports > 0
                THEN SystemTransfer(s1, "payer", "sts", required_lamports)
                ELSE s1
        ELSE IF Len(a["sts"].data) < DISCRIMINATOR_LEN THEN
            Fail(s0, "Panic")
        ELSE IF Tag(a["sts"].data) = SellerTradeStateV2_discriminator THEN s0
        ELSE Fail(s0, "InvalidAccountState")

\* create_or_realloc_seller_trade_state(sts, payer, sts_seeds)
create_or_realloc_seller_trade_state(a) ==
    LET s0 == Begin(a)
        required_lamports ==
            saturating_sub(minimum_balance(SellerTradeStateV2_LEN), a["sts"].lamports)
    IN  IF Len(a["sts"].data) = 0 THEN
            \* brand new account, created with the V2 length
            LET s1 == SystemCreateAccount(s0, "payer", "sts", required_lamports,
                                          SellerTradeStateV2_LEN)
            IN  IF s1.res # "Ok" THEN s1
                ELSE [s1 EXCEPT !.acct["sts"].data = WriteTag(@, SellerTradeStateV2_discriminator)]
        ELSE IF Len(a["sts"].data) = SellerTradeState_LEN THEN
            \* legacy record: zero out, reallocate, fund, write discriminator
            LET s1 == [s0 EXCEPT !.acct["sts"].data =
                                     Realloc(Zeros(SellerTradeState_LEN), SellerTradeStateV2_LEN)]
                s2 == IF required_lamports > 0
                      THEN SystemTransfer(s1, "payer", "sts", required_lamports)
                      ELSE s1
            IN  IF s2.res # "Ok" THEN s2
                ELSE [s2 EXCEPT !.acct["sts"].data = WriteTag(@, SellerTradeStateV2_discriminator)]
        ELSE IF Len(a["sts"].data) < DISCRIMINATOR_LEN THEN
            \* the slice [0..8] of a shorter buffer panics
            Fail(s0, "Panic")
        ELSE IF Tag(a["sts"].data) = SellerTradeStateV2_discriminator THEN s0
        ELSE Fail(s0, "InvalidAccountState")

\* mutant of create_or_realloc_buyer_trade_state: the legacy bytes are kept
create_or_realloc_buyer_trade_state_unzeroed(a) ==
    LET s0 == Begin(a)
        required_lamports ==
            saturating_sub(minimum_balance(BuyerTradeStateV2_LEN), a["bts"].lamports)
    IN  IF Len(a["bts"].data) = 0 THEN
            LET s1 == SystemCreateAccount(s0, "payer", "bts", required_lamports,
                                          BuyerTradeStateV2_LEN)
            IN  IF s1.res # "Ok" THEN s1
                ELSE [s1 EXCEPT !.acct["bts"].data = WriteTag(@, BuyerTradeStateV2_discriminator)]
        ELSE IF Len(a["bts"].data) = BuyerTradeState_LEN THEN
            LET s1 == [s0 EXCEPT !.acct["bts"].data =
                                     Realloc(a["bts"].data, BuyerTradeStateV2_LEN)]
                s2 == IF required_lamports > 0
                      THEN SystemTransfer(s1, "payer", "bts", required_lamports)
                      ELSE s1
            IN  IF s2.res # "Ok" THEN s2
                ELSE [s2 EXCEPT !.acct["bts"].data = WriteTag(@, BuyerTradeStateV2_discriminator)]
        ELSE IF Len(a["bts"].data) < DISCRIMINATOR_LEN THEN
            Fail(s0, "Panic")
        ELSE IF Tag(a["bts"].data) = BuyerTradeStateV2_discriminator THEN s0
        ELSE Fail(s0, "InvalidAccountState")

\* mutant of create_or_realloc_buyer_trade_state: a V2-sized buffer whose
\* tag is erased is funded and tagged again
create_or_realloc_buyer_trade_state_revives(a) ==
    LET s0 == Begin(a)
        required_lamports ==
            saturating_sub(minimum_balance(BuyerTradeStateV2_LEN), a["bts"].lamports)
    IN  IF Len(a["bts"].data) = 0 THEN
            LET s1 == SystemCreateAccount(s0, "payer", "bts", required_lamports,
                                          BuyerTradeStateV2_LEN)
            IN  IF s1.res # "Ok" THEN s1
                ELSE [s1 EXCEPT !.acct["bts"].data = WriteTag(@, BuyerTradeStateV2_discriminator)]
        ELSE IF Len(a["bts"].data) = BuyerTradeState_LEN THEN
            LET s1 == [s0 EXCEPT !.acct["bts"].data =
                                     Realloc(Zeros(BuyerTradeState_LEN), BuyerTradeStateV2_LEN)]
                s2 == IF required_lamports > 0
                      THEN SystemTransfer(s1, "payer", "bts", required_lamports)
                      ELSE s1
            IN  IF s2.res # "Ok" THEN s2
                ELSE [s2 EXCEPT !.acct["bts"].data = WriteTag(@, BuyerTradeStateV2_discriminator)]
        ELSE IF Len(a["bts"].data) < DISCRIMINATOR_LEN THEN
            Fail(s0, "Panic")
        ELSE IF Tag(a["bts"].data) = BuyerTradeStateV2_discriminator THEN s0
        ELSE IF /\ Len(a["bts"].data) = BuyerTradeStateV2_LEN
                /\ Tag(a["bts"].data) = Zeros(DISCRIMINATOR_LEN) THEN
            LET s2 == IF required_lamports > 0
                      THEN SystemTransfer(s0, "payer", "bts", required_lamports)
                      ELSE s0
            IN  IF s2.res # "Ok" THEN s2
                ELSE [s2 EXCEPT !.acct["bts"].data = WriteTag(@, BuyerTradeStateV2_discriminator)]
        ELSE Fail(s0, "InvalidAccountState")

\* create_or_realloc_buyer_trade_state(bts, payer, bts_seeds)
create_or_realloc_buyer_trade_state(a) ==
    LET s0 == Begin(a)
        required_lamports ==
            saturating_sub(minimum_balance(BuyerTradeStateV2_LEN), a["bts"].lamports)
    IN  IF Len(a["bts"].data) = 0 THEN
            \* brand new account, created with the V2 length
            LET s1 == SystemCreateAccount(s0, "payer", "bts", required_lamports,
                                          BuyerTradeStateV2_LEN)
            IN  IF s1.res # "Ok" THEN s1
                ELSE [s1 EXCEPT !.acct["bts"].data = WriteTag(@, BuyerTradeStateV2_discriminator)]
        ELSE IF Len(a["bts"].data) = BuyerTradeState_LEN THEN
            \* legacy record: zero out, reallocate, fund, write discriminator
            LET s1 == [s0 EXCEPT !.acct["bts"].data =
                                     Realloc(Zeros(BuyerTradeState_LEN), BuyerTradeStateV2_LEN)]
                s2 == IF required_lamports > 0
                      THEN SystemTransfer(s1, "payer", "bts", required_lamports)
                      ELSE s1
            IN  IF s2.res # "Ok" THEN s2
                ELSE [s2 EXCEPT !.acct["bts"].data = WriteTag(@, BuyerTradeStateV2_discriminator)]
        ELSE IF Len(a["bts"].data) < DISCRIMINATOR_LEN THEN
            \* the slice [0..8] of a shorter buffer panics
            Fail(s0, "Panic")
        ELSE IF Tag(a["bts"].data) = BuyerTradeStateV2_discriminator THEN s0
        ELSE Fail(s0, "InvalidAccountState")

----------------------------------------------------------------------------
(* close_account_anchor(info, dest) *)

\* mutant of close_account_anchor: info keeps its lamports
close_account_anchor_undrained(a, info, dest) ==
    LET s0 == Begin(a)
        curr_lamp == a[info].lamports
    IN  IF s0.acct[dest].lamports + curr_lamp > U64_MAX
        THEN Fail(s0, "NumericalOverflow")
        ELSE LET s2 == [s0 EXCEPT !.acct[dest].lamports = @ + curr_lamp]
             IN  IF Len(a[info].data) < DISCRIMINATOR_LEN THEN Fail(s2, "Panic")
                 ELSE [s2 EXCEPT !.acct[info].data =
                                     WriteTag(@, Zeros(DISCRIMINATOR_LEN))]

\* mutant of close_account_anchor: the whole buffer is zeroed
close_account_anchor_wipes(a, info, dest) ==
    LET s0 == Begin(a)
        curr_lamp == a[info].lamports
        s1 == [s0 EXCEPT !.acct[info].lamports = 0]
    IN  IF s1.acct[dest].lamports + curr_lamp > U64_MAX
        THEN Fail(s1, "NumericalOverflow")
        ELSE LET s2 == [s1 EXCEPT !.acct[dest].lamports = @ + curr_lamp]
             IN  IF Len(a[info].data) < DISCRIMINATOR_LEN THEN Fail(s2, "Panic")
                 ELSE [s2 EXCEPT !.acct[info].data = Zeros(Len(@))]

\* mutant of close_account_anchor: the tag is erased before the balances move
close_account_anchor_erases_first(a, info, dest) ==
    LET s0 == Begin(a)
        curr_lamp == a[info].lamports
    IN  IF Len(a[info].data) < DISCRIMINATOR_LEN THEN Fail(s0, "Panic")
        ELSE LET s1 == [s0 EXCEPT !.acct[info].data =
                                      WriteTag(@, Zeros(DISCRIMINATOR_LEN)),
                                  !.acct[info].lamports = 0]
             IN  IF s1.acct[dest].lamports + curr_lamp > U64_MAX
                 THEN Fail(s1, "NumericalOverflow")
                 ELSE [s1 EXCEPT !.acct[dest].lamports = @ + curr_lamp]

close_account_anchor(a, info, dest) ==
    LET s0 == Begin(a)
        curr_lamp == a[info].lamports
        s1 == [s0 EXCEPT !.acct[info].lamports = 0]
    IN  IF s1.acct[dest].lamports + curr_lamp > U64_MAX
        THEN Fail(s1, "NumericalOverflow")
        ELSE LET s2 == [s1 EXCEPT !.acct[dest].lamports = @ + curr_lamp]
             IN  IF Len(a[info].data) < DISCRIMINATOR_LEN THEN Fail(s2, "Panic")
                 ELSE [s2 EXCEPT !.acct[info].data =
                                     WriteTag(@, Zeros(DISCRIMINATOR_LEN))]

----------------------------------------------------------------------------
(* Fee distribution engine *)

\* mutant of fee_u128: the rate is taken as a percentage
fee_u128_percent(bp, size) == checked_div(checked_mul(bp, size), 100)

\* (bp as u128).checked_mul(size as u128)?.checked_div(10000)?: None on overflow
fee_u128(bp, size) == checked_div(checked_mul(bp, size), BASIS_POINTS)

\* mutant of pay_auction_house_fees: a treasury fee of 0 is not transferred
pay_auction_house_fees_skips_zero(a, ah, size) ==
    LET s0 == Begin(a)
        treasury_bp == ah.seller_fee_basis_points
        buyer_referral_bp == ah.buyer_referral_bp
        seller_referral_bp == ah.seller_referral_bp
        buyer_q == fee_u128(buyer_referral_bp, size)
        buyer_referral_fee ==
            IF buyer_referral_bp > 0 /\ buyer_q # None THEN as_u64(buyer_q) ELSE 0
        s1 == IF buyer_referral_bp > 0
              THEN IF buyer_q = None THEN Fail(s0, "NumericalOverflow")
                   ELSE SystemTransfer(s0, "escrow", "buyer_referral", buyer_referral_fee)
              ELSE s0
        seller_q == fee_u128(seller_referral_bp, size)
        seller_referral_fee ==
            IF seller_referral_bp > 0 /\ seller_q # None THEN as_u64(seller_q) ELSE 0
        s2 == IF s1.res = "Ok" /\ seller_referral_bp > 0
              THEN IF seller_q = None THEN Fail(s1, "NumericalOverflow")
                   ELSE SystemTransfer(s1, "escrow", "seller_referral", seller_referral_fee)
              ELSE s1
        treasury_q ==
            checked_sub(fee_u128(treasury_bp, size),
                        buyer_referral_fee + seller_referral_fee)
        treasury_fee == IF treasury_q = None THEN 0 ELSE as_u64(treasury_q)
        s3 == IF s2.res # "Ok" THEN s2
              ELSE IF treasury_q = None THEN Fail(s2, "NumericalOverflow")
              ELSE IF treasury_fee = 0 THEN s2
              ELSE SystemTransfer(s2, "escrow", "treasury", treasury_fee)
    IN  [s3 EXCEPT !.value = treasury_fee]

\* pay_auction_house_fees(auction_house, auction_house_treasury,
\* escrow_payment_account, buyer_referral, seller_referral, .., size)
pay_auction_house_fees(a, ah, size) ==
    LET s0 == Begin(a)
        treasury_bp == ah.seller_fee_basis_points
        buyer_referral_bp == ah.buyer_referral_bp
        seller_referral_bp == ah.seller_referral_bp
        buyer_q == fee_u128(buyer_referral_bp, size)
        buyer_referral_fee ==
            IF buyer_referral_bp > 0 /\ buyer_q # None THEN as_u64(buyer_q) ELSE 0
        s1 == IF buyer_referral_bp > 0
              THEN IF buyer_q = None THEN Fail(s0, "NumericalOverflow")
                   ELSE SystemTransfer(s0, "escrow", "buyer_referral", buyer_referral_fee)
              ELSE s0
        seller_q == fee_u128(seller_referral_bp, size)
        seller_referral_fee ==
            IF seller_referral_bp > 0 /\ seller_q # None THEN as_u64(seller_q) ELSE 0
        s2 == IF s1.res = "Ok" /\ seller_referral_bp > 0
              THEN IF seller_q = None THEN Fail(s1, "NumericalOverflow")
                   ELSE SystemTransfer(s1, "escrow", "seller_referral", seller_referral_fee)
              ELSE s1
        treasury_q ==
            checked_sub(fee_u128(treasury_bp, size),
                        buyer_referral_fee + seller_referral_fee)
        treasury_fee == IF treasury_q = None THEN 0 ELSE as_u64(treasury_q)
        s3 == IF s2.res # "Ok" THEN s2
              ELSE IF treasury_q = None THEN Fail(s2, "NumericalOverflow")
              ELSE SystemTransfer(s2, "escrow", "treasury", treasury_fee)
    IN  [s3 EXCEPT !.value = treasury_fee]

----------------------------------------------------------------------------
(* Escrow reclamation *)

\* mutant of try_close_buyer_escrow: a balance equal to the minimum is kept
try_close_buyer_escrow_at_least(a) ==
    LET s0 == Begin(a)
        min_rent == minimum_balance(0)
        escrow_lamports == a["escrow"].lamports
    IN  IF escrow_lamports = 0 \/ escrow_lamports >= min_rent THEN s0
        ELSE SystemTransfer(s0, "escrow", "buyer", escrow_lamports)

\* mutant of try_close_buyer_escrow: the minimum is transferred, not the balance
try_close_buyer_escrow_min_rent(a) ==
    LET s0 == Begin(a)
        min_rent == minimum_balance(0)
        escrow_lamports == a["escrow"].lamports
    IN  IF escrow_lamports = 0 \/ escrow_lamports > min_rent THEN s0
        ELSE SystemTransfer(s0, "escrow", "buyer", min_rent)

try_close_buyer_escrow(a) ==
    LET s0 == Begin(a)
        min_rent == minimum_balance(0)
        escrow_lamports == a["escrow"].lamports
    IN  IF escrow_lamports = 0 \/ escrow_lamports > min_rent THEN s0
        ELSE SystemTransfer(s0, "escrow", "buyer", escrow_lamports)

----------------------------------------------------------------------------
(* The ledger: calls inside a transaction *)

NoCall == [op |-> "none", res |-> "Ok", target |-> "none", size |-> 0, value |-> 0]

\* a call may start while the transaction has not failed
Running == ret.res = "Ok"

\* the effect of a finished call `st` of operation `op`
Return(op, target, size, st) ==
    /\ acct' = st.acct
    /\ pre' = acct
    /\ log' = st.log
    /\ ret' = [op |-> op, res |-> st.res, target |-> target, size |-> size,
               value |-> IF st.res = "Ok" THEN st.value ELSE 0]
    /\ UNCHANGED <<auction_house, args, tx>>

CallSellerTradeState ==
    /\ Running
    /\ Return("create_or_realloc_seller_trade_state", "sts", 0,
              create_or_realloc_seller_trade_state(acct))
    /\ UNCHANGED calls

CallBuyerTradeState ==
    /\ Running
    /\ Return("create_or_realloc_buyer_trade_state", "bts", 0,
              create_or_realloc_buyer_trade_state(acct))
    /\ UNCHANGED calls

CallCloseAccountAnchor ==
    /\ Running
    /\ \E info \in TradeAccounts :
          Return("close_account_anchor", info, 0,
                 close_account_anchor(acct, info, "dest"))
    /\ UNCHANGED calls

\* the sale sizes a call is given
Sizes == {0, 1, 10000, U64_MAX}

CallPayAuctionHouseFees ==
    /\ Running
    /\ calls < MaxCalls
    /\ \E size \in Sizes :
          Return("pay_auction_house_fees", "escrow", size,
                 pay_auction_house_fees(acct, auction_house, size))
    /\ calls' = calls + 1

CallTryCloseBuyerEscrow ==
    /\ Running
    /\ calls < MaxCalls
    /\ Return("try_close_buyer_escrow", "escrow", 0, try_close_buyer_escrow(acct))
    /\ calls' = calls + 1

\* a failed call fails the transaction: the runtime restores every account
Abort ==
    /\ ~Running
    /\ acct' = tx
    /\ pre' = tx
    /\ log' = <<>>
    /\ ret' = [NoCall EXCEPT !.op = "abort"]
    /\ UNCHANGED <<auction_house, args, tx, calls>>

----------------------------------------------------------------------------
(* Starting states of the trade-state specification *)

\* a record of length n with tag `tag` and every later byte b
Record(tag, n, b) == [i \in 1..n |-> IF i <= Len(tag) THEN tag[i] ELSE b]

MinSellerV2 == minimum_balance(SellerTradeStateV2_LEN)

MinBuyerV2 == minimum_balance(BuyerTradeStateV2_LEN)

\* the states a trade-state account is passed in: never created (any balance
\* sent to the address), a legacy record of any content and balance, a V2
\* record as the program leaves it, or a buffer the routine does not
\* recognize (shorter than a tag, V2-sized under the legacy tag, longer)
TradeStates(V1_LEN, V2_LEN, v1tag, v2tag) ==
    LET min == minimum_balance(V2_LEN)
    IN  {Account(l, <<>>, "system") : l \in {0, 1, min}}
        \cup {Account(l, d, "program") :
                l \in {0, 1, min - 1, min, min + 1},
                d \in {Zeros(V1_LEN), Record(v1tag, V1_LEN, 7), Record(v2tag, V1_LEN, 7)}}
        \cup {Account(l, d, "program") :
                l \in {min, min + 1},
                d \in {Record(v2tag, V2_LEN, 0), Record(v2tag, V2_LEN, 7)}}
        \cup {Account(l, d, "program") :
                l \in {0, min},
                d \in {<<7>>, Record(v1tag, V2_LEN, 7), Zeros(V2_LEN + 1)}}

SellerStates ==
    TradeStates(SellerTradeState_LEN, SellerTradeStateV2_LEN,
                SellerTradeState_discriminator, SellerTradeStateV2_discriminator)

BuyerStates ==
    TradeStates(BuyerTradeState_LEN, BuyerTradeStateV2_LEN,
                BuyerTradeState_discriminator, BuyerTradeStateV2_discriminator)

Wallet(l) == Account(l, <<>>, "system")

DefaultAccounts == [n \in Accounts |-> Wallet(0)]

DefaultAuctionHouse ==
    [seller_fee_basis_points |-> 0, buyer_referral_bp |-> 0, seller_referral_bp |-> 0]

\* the operations of the ledger take accounts only
NoArgs == [op |-> "none"]

InitTrade ==
    /\ \E s \in SellerStates \cup {Wallet(0)}, b \in BuyerStates \cup {Wallet(0)},
          p \in {0, MinSellerV2 - 1, MinBuyerV2, 2 * MinBuyerV2 + 5},
          d \in {0, 5, U64_MAX - 1, U64_MAX} :
          /\ s = Wallet(0) \/ b = Wallet(0)
          /\ acct = [DefaultAccounts EXCEPT !["sts"] = s, !["bts"] = b,
                                            !["payer"] = Wallet(p), !["dest"] = Wallet(d)]
    /\ auction_house = DefaultAuctionHouse
    /\ args = NoArgs
    /\ tx = acct
    /\ pre = acct
    /\ ret = NoCall
    /\ log = <<>>
    /\ calls = 0

NextTrade ==
    \/ CallSellerTradeState
    \/ CallBuyerTradeState
    \/ CallCloseAccountAnchor
    \/ Abort

SpecTrade == InitTrade /\ [][NextTrade]_vars

----------------------------------------------------------------------------
(* Starting states of the payment specification *)

\* basis-point rates of the auction house, u16
BpValues == {0, 50, 200, U16_MAX}

MinRent0 == minimum_balance(0)

InitPay ==
    /\ \E e \in {0, 1, 150, MinRent0, MinRent0 + 1, U64_MAX}, b \in {0, 5} :
          acct = [DefaultAccounts EXCEPT !["escrow"] = Wallet(e), !["buyer"] = Wallet(b)]
    /\ \E t \in BpValues, br \in BpValues, sr \in BpValues :
          auction_house = [seller_fee_basis_points |-> t, buyer_referral_bp |-> br,
                           seller_referral_bp |-> sr]
    /\ args = NoArgs
    /\ tx = acct
    /\ pre = acct
    /\ ret = NoCall
    /\ log = <<>>
    /\ calls = 0

NextPay ==
    \/ CallPayAuctionHouseFees
    \/ CallTryCloseBuyerEscrow
    \/ Abort

SpecPay == InitPay /\ [][NextPay]_vars

----------------------------------------------------------------------------
(* What the claims speak of *)

LifecycleOps ==
    {"create_or_realloc_seller_trade_state", "create_or_realloc_buyer_trade_state"}

V1Len(t) == IF t = "sts" THEN SellerTradeState_LEN ELSE BuyerTradeState_LEN

V2Len(t) == IF t = "sts" THEN SellerTradeStateV2_LEN ELSE BuyerTradeStateV2_LEN

V2Tag(t) ==
    IF t = "sts" THEN SellerTradeStateV2_discriminator
    ELSE BuyerTradeStateV2_discriminator

IsEmpty(x) == Len(x.data) = 0

IsV1Shaped(x, t) == Len(x.data) = V1Len(t)

IsV2Shaped(x, t) == Len(x.data) = V2Len(t) /\ Tag(x.data) = V2Tag(t)

Max(x, y) == IF x >= y THEN x ELSE y

\* the last call was the lifecycle routine of t, and it returned this result
Lifecycle(t, res) ==
    ret.op \in LifecycleOps /\ ret.target = t /\ ret.res = res

C5_Migration ==
    \A t \in TradeAccounts :
        (Lifecycle(t, "Ok") /\ IsV1Shaped(pre[t], t)) =>
            LET min == minimum_balance(V2Len(t))
                required_lamports == saturating_sub(min, pre[t].lamports)
            IN  /\ acct[t].data = Record(V2Tag(t), V2Len(t), 0)
                /\ acct[t].lamports = Max(pre[t].lamports, min)
                /\ acct[t].lamports >= pre[t].lamports
                /\ acct["payer"].lamports = pre["payer"].lamports - required_lamports

\* an underfunded legacy record with content was migrated and topped up
C5_Witness ==
    \E t \in TradeAccounts :
        /\ Lifecycle(t, "Ok")
        /\ IsV1Shaped(pre[t], t)
        /\ pre[t].data # Zeros(V1Len(t))
        /\ pre[t].lamports < minimum_balance(V2Len(t))
        /\ acct["payer"].lamports < pre["payer"].lamports

\* C6: a lifecycle call on an account already in V2 form succeeds and changes
\* nothing: no account's data, length, lamports or owner, and no
\* sub-instruction is issued; so every call of a run of such calls does.
C6_Idempotent ==
    \A t \in TradeAccounts :
        (ret.op \in LifecycleOps /\ ret.target = t /\ IsV2Shaped(pre[t], t)) =>
            /\ ret.res = "Ok"
            /\ acct = pre
            /\ log = <<>>

\* the routine ran on a V2 record that holds data after its tag
C6_Witness ==
    \E t \in TradeAccounts :
        /\ Lifecycle(t, "Ok")
        /\ IsV2Shaped(pre[t], t)
        /\ pre[t].data # Record(V2Tag(t), V2Len(t), 0)

InThree(x, t) == IsEmpty(x) \/ IsV1Shaped(x, t) \/ IsV2Shaped(x, t)

ExactlyOne(x, t) ==
    Cardinality({i \in 1..3 : /\ i = 1 => IsEmpty(x)
                              /\ i = 2 => IsV1Shaped(x, t)
                              /\ i = 3 => IsV2Shaped(x, t)}) = 1

\* a step that is a call of the lifecycle routine of t
LifecycleStep(t) ==
    /\ Running
    /\ ret'.op \in LifecycleOps
    /\ ret'.target = t
    /\ pre' = acct

Closed(info, res) ==
    ret.op = "close_account_anchor" /\ ret.target = info /\ ret.res = res

\* C10: close_account_anchor(info, dest), for two distinct accounts, on
\* success leaves info with 0 lamports, dest with its balance plus info's
\* prior balance, and info's data with its first 8 bytes zero and every
\* other byte as before; when the sum does not fit 64 bits it fails with
\* NumericalOverflow.
C10_CloseAccountAnchor ==
    \A info \in TradeAccounts :
        /\ Closed(info, "Ok") =>
              /\ acct[info].lamports = 0
              /\ acct["dest"].lamports = pre["dest"].lamports + pre[info].lamports
              /\ Len(acct[info].data) = Len(pre[info].data)
              /\ \A i \in 1..Len(acct[info].data) :
                    acct[info].data[i] =
                        IF i <= DISCRIMINATOR_LEN THEN 0 ELSE pre[info].data[i]
        /\ (ret.op = "close_account_anchor" /\ ret.target = info
              /\ pre["dest"].lamports + pre[info].lamports > U64_MAX)
              => ret.res = "NumericalOverflow"

\* a funded record with a tag and later bytes was closed
C10_Witness ==
    \E info \in TradeAccounts :
        /\ Closed(info, "Ok")
        /\ pre[info].lamports > 0
        /\ Tag(pre[info].data) # Zeros(DISCRIMINATOR_LEN)
        /\ pre[info].data[DISCRIMINATOR_LEN + 1] # 0
        /\ pre["dest"].lamports > 0

----------------------------------------------------------------------------
(* Claims about the fee distribution engine and escrow reclamation *)

IsPay == ret.op = "pay_auction_house_fees"

IsTryClose == ret.op = "try_close_buyer_escrow"

\* floor(size * bp / 10000), in the integers
Floor(bp, size) == (bp * size) \div BASIS_POINTS

\* what the last call added to an account's balance
Delta(n) == acct[n].lamports - pre[n].lamports

InvokeErrors ==
    {"InvalidArgument", "InsufficientFunds", "ArithmeticOverflow", "AccountAlreadyInUse"}

\* the sub-instructions of the last call that went through
Done == IF ret.res \in InvokeErrors THEN SubSeq(log, 1, Len(log) - 1) ELSE log

Gross == Floor(auction_house.seller_fee_basis_points, ret.size)

BuyerShare == Floor(auction_house.buyer_referral_bp, ret.size)

SellerShare == Floor(auction_house.seller_referral_bp, ret.size)

Covered ==
    auction_house.seller_fee_basis_points >=
        auction_house.buyer_referral_bp + auction_house.seller_referral_bp

SplitHolds ==
    /\ ret.res = "Ok"
    /\ Delta("buyer_referral") = BuyerShare
    /\ Delta("seller_referral") = SellerShare
    /\ Delta("treasury") = ret.value
    /\ ret.value + Delta("buyer_referral") + Delta("seller_referral") = Gross
    /\ Delta("escrow") = 0 - Gross

\* C2 as stated: for every size and every basis-point triple with
\* seller_fee_bp >= buyer_referral_bp + seller_referral_bp the call succeeds
\* and the three amounts add up to floor(size * seller_fee_bp / 10000), each
\* referral fee being floor(size * bp / 10000).
C2_AsClaimed == (IsPay /\ Covered) => SplitHolds

\* C2, amended: the same, for an escrow that holds at least
\* floor(size * seller_fee_bp / 10000) lamports.
C2_FeeSplit ==
    (IsPay /\ Covered /\ pre["escrow"].lamports >= Gross) => SplitHolds

\* size 10000 at 200/50/0 basis points pays 50, 0 and 150
C2_Witness ==
    /\ IsPay
    /\ ret.res = "Ok"
    /\ ret.size = 10000
    /\ auction_house = [seller_fee_basis_points |-> 200, buyer_referral_bp |-> 50,
                        seller_referral_bp |-> 0]
    /\ Delta("buyer_referral") = 50
    /\ Delta("seller_referral") = 0
    /\ ret.value = 150

\* the referral fees the code computed
BuyerFee == IF auction_house.buyer_referral_bp > 0 THEN as_u64(BuyerShare) ELSE 0

SellerFee == IF auction_house.seller_referral_bp > 0 THEN as_u64(SellerShare) ELSE 0

\* C3 as stated: a call that fails with NumericalOverflow has performed no
\* transfer: no lamports have left the escrow for any payee.
C3_AsClaimed ==
    (IsPay /\ ret.res = "NumericalOverflow") =>
        /\ Delta("escrow") = 0
        /\ \A n \in {"buyer_referral", "seller_referral", "treasury"} : Delta(n) = 0

\* C3, amended: when the referral fees summed exceed the gross share the
\* call does not succeed and issues no treasury transfer; it fails with
\* NumericalOverflow unless a referral transfer was refused first.  The
\* failure comes after the referral transfers: at the return the escrow
\* has paid both referral fees, which only the abort of the transaction
\* takes back.  No product of the engine overflows 128 bits, so this is
\* the only way the call fails with NumericalOverflow.
C3_Underflow ==
    IsPay =>
        /\ (BuyerFee + SellerFee > Gross) =>
              /\ ret.res # "Ok"
              /\ \A k \in 1..Len(log) : log[k].to # "treasury"
              /\ ret.res \notin InvokeErrors => ret.res = "NumericalOverflow"
        /\ ret.res = "NumericalOverflow" =>
              /\ BuyerFee + SellerFee > Gross
              /\ Delta("buyer_referral") = BuyerFee
              /\ Delta("seller_referral") = SellerFee
              /\ Delta("treasury") = 0
              /\ Delta("escrow") = 0 - (BuyerFee + SellerFee)

\* the call failed with NumericalOverflow after paying a referral fee
C3_Witness ==
    /\ IsPay
    /\ ret.res = "NumericalOverflow"
    /\ Delta("escrow") < 0
    /\ Delta("buyer_referral") > 0

\* C4 as stated: no fee is truncated to 64 bits and transferred: every
\* transfer that went through carries the fee's value, the quotient
\* size * bp / 10000 (less the referral fees, for the treasury).
C4_AsClaimed ==
    IsPay =>
        \A k \in 1..Len(Done) :
            Done[k].amount =
                CASE Done[k].to = "buyer_referral" -> BuyerShare
                  [] Done[k].to = "seller_referral" -> SellerShare
                  [] OTHER -> Gross - BuyerFee - SellerFee

NoOp == ret.res = "Ok" /\ acct = pre /\ log = <<>>

\* the escrow's whole balance b went to the buyer, and nothing else moved
Reclaimed(b) ==
    /\ ret.res = "Ok"
    /\ log = <<Instr("transfer", "escrow", "buyer", b)>>
    /\ acct["escrow"].lamports = 0
    /\ acct["buyer"].lamports = pre["buyer"].lamports + b
    /\ \A n \in Accounts \ {"escrow", "buyer"} : acct[n] = pre[n]

\* C8: try_close_buyer_escrow succeeds with no transfer and no change when
\* the escrow balance is zero or above the rent-exempt minimum of an empty
\* account; otherwise it transfers the whole balance to the buyer.
C8_TryCloseBuyerEscrow ==
    IsTryClose =>
        LET b == pre["escrow"].lamports
        IN  IF b = 0 \/ b > minimum_balance(0) THEN NoOp ELSE Reclaimed(b)

\* dust strictly between 1 and the minimum was reclaimed
C8_Witness ==
    /\ IsTryClose
    /\ pre["escrow"].lamports > 1
    /\ pre["escrow"].lamports < minimum_balance(0)
    /\ Reclaimed(pre["escrow"].lamports)
    /\ pre["buyer"].lamports > 0

\* C9 as stated: balance 0 is a no-op, balance equal to the rent-exempt
\* minimum is a no-op, balance 1 (below the minimum) is transferred.
C9_AsClaimed ==
    IsTryClose =>
        LET b == pre["escrow"].lamports
        IN  /\ b = 0 => NoOp
            /\ b = minimum_balance(0) => NoOp
            /\ (b = 1 /\ minimum_balance(0) > 1) => Reclaimed(1)

\* C9, amended: balance 0 is a no-op; a balance equal to the rent-exempt
\* minimum is transferred in full to the buyer (only a balance above the
\* minimum is kept); balance 1 is transferred.
C9_Boundaries ==
    IsTryClose =>
        LET b == pre["escrow"].lamports
        IN  /\ b = 0 => NoOp
            /\ b = minimum_balance(0) => Reclaimed(minimum_balance(0))
            /\ b = minimum_balance(0) + 1 => NoOp
            /\ (b = 1 /\ minimum_balance(0) > 1) => Reclaimed(1)

\* an escrow holding exactly the minimum was emptied
C9_Witness ==
    /\ IsTryClose
    /\ ret.res = "Ok"
    /\ pre["escrow"].lamports = minimum_balance(0)
    /\ acct["escrow"].lamports = 0
    /\ Delta("buyer") = minimum_balance(0)

----------------------------------------------------------------------------
(* Notary gate *)

\* width of an i64 in the model (64 in the program)
I64_BITS == 8

I64_MAX == (2 ^ (I64_BITS - 1)) - 1

I64_MIN == 0 - (2 ^ (I64_BITS - 1))

\* i64::abs without overflow checks: i64::MIN has no positive counterpart
\* and wraps to itself
wrapping_abs(x) == IF x = I64_MIN THEN I64_MIN ELSE IF x < 0 THEN 0 - x ELSE x

\* the % of a signed integer: the remainder has the sign of the dividend
i64_rem(x, m) == IF x >= 0 THEN x % m ELSE 0 - ((0 - x) % m)

\* `x as u8` on an i64: keeps the low 8 bits
as_u8(x) == x % 256

\* bytes of a public key
PUBKEY_BYTES == 32

\* Pubkey::new_from_array([b; 32])
Pubkey(b) == [i \in 1..PUBKEY_BYTES |-> b]

\* assert_valid_notary(auction_house, notary, enforce_prob), with the clock's
\* unix_timestamp; abs() of i64::MIN panics in a build with overflow checks
\* and wraps in one without
assert_valid_notary(ah, notary, enforce_prob, unix_timestamp, overflow_checks) ==
    IF ah.requires_notary THEN
        IF unix_timestamp = I64_MIN /\ overflow_checks THEN "Panic"
        ELSE IF as_u8(i64_rem(wrapping_abs(unix_timestamp), 100)) >= enforce_prob THEN "Ok"
        ELSE IF ~notary.is_signer THEN "InvalidAccountState"
        ELSE IF notary.key # ah.notary THEN "InvalidAccountState"
        ELSE "Ok"
    ELSE "Ok"

\* the result of a validator: it changes no account
Checked(op, res) ==
    /\ ret' = [NoCall EXCEPT !.op = op, !.res = res]
    /\ pre' = acct
    /\ log' = <<>>
    /\ UNCHANGED <<acct, auction_house, args, tx, calls>>

CallAssertValidNotary ==
    /\ Running
    /\ args.op = "assert_valid_notary"
    /\ \E overflow_checks \in BOOLEAN :
          Checked("assert_valid_notary",
                  assert_valid_notary(auction_house, args.notary, args.enforce_prob,
                                      args.unix_timestamp, overflow_checks))

\* enforce_prob, 0-100
EnforceProbs == {0, 1, 50, 99, 100}

InitNotary ==
    /\ \E r \in BOOLEAN :
          auction_house = [seller_fee_basis_points |-> 0, buyer_referral_bp |-> 0,
                           seller_referral_bp |-> 0, requires_notary |-> r,
                           notary |-> Pubkey(1)]
    /\ \E k \in {1, 2}, s \in BOOLEAN, e \in EnforceProbs, t \in I64_MIN..I64_MAX :
          args = [op |-> "assert_valid_notary",
                  notary |-> [key |-> Pubkey(k), is_signer |-> s],
                  enforce_prob |-> e, unix_timestamp |-> t]
    /\ acct = DefaultAccounts
    /\ tx = acct
    /\ pre = acct
    /\ ret = NoCall
    /\ log = <<>>
    /\ calls = 0

NextNotary ==
    \/ CallAssertValidNotary
    \/ Abort

SpecNotary == InitNotary /\ [][NextNotary]_vars

IsNotary == ret.op = "assert_valid_notary"

\* |x|, in the integers
Abs(x) == IF x < 0 THEN 0 - x ELSE x

\* the decision table of the gate
NotaryTable ==
    LET valid == args.notary.is_signer /\ args.notary.key = auction_house.notary
        skipped == (Abs(args.unix_timestamp) % 100) >= args.enforce_prob
    IN  IF ~auction_house.requires_notary \/ skipped \/ valid
        THEN ret.res = "Ok"
        ELSE ret.res = "InvalidAccountState"

\* C11 as stated: for every clock value, enforce_prob in 0..100, signer flag
\* and notary key, the gate succeeds when no notary is required or when
\* |unix_timestamp| mod 100 >= enforce_prob, and otherwise fails with
\* InvalidAccountState unless the notary signed and has the auction house's
\* notary address.
C11_AsClaimed == IsNotary => NotaryTable

\* the table does hold for every clock value other than i64::MIN
NotaryTableAboveMin == (IsNotary /\ args.unix_timestamp # I64_MIN) => NotaryTable

----------------------------------------------------------------------------
(* Unrecognized trade-state buffers *)

\* neither empty, nor of the legacy length, nor carrying the V2 tag
Unrecognized(x, t) ==
    /\ ~IsEmpty(x)
    /\ ~IsV1Shaped(x, t)
    /\ (Len(x.data) < DISCRIMINATOR_LEN \/ Tag(x.data) # V2Tag(t))

\* the lifecycle routine of t refused the account and changed nothing
Refused(t) ==
    /\ ret.res = "InvalidAccountState"
    /\ acct[t] = pre[t]
    /\ acct["payer"] = pre["payer"]
    /\ log = <<>>

\* C12 as stated: on a non-empty account that has not the legacy length and
\* not the V2 tag in its first 8 bytes, buffers shorter than 8 bytes
\* included, the lifecycle routine returns InvalidAccountState and leaves the
\* account's data, length and lamports and the payer's lamports unchanged.
C12_AsClaimed ==
    \A t \in TradeAccounts :
        (ret.op \in LifecycleOps /\ ret.target = t /\ Unrecognized(pre[t], t))
            => Refused(t)

\* the same does hold of every such buffer of at least 8 bytes
UnrecognizedRefused ==
    \A t \in TradeAccounts :
        (ret.op \in LifecycleOps /\ ret.target = t /\ Unrecognized(pre[t], t)
            /\ Len(pre[t].data) >= DISCRIMINATOR_LEN)
            => Refused(t)

----------------------------------------------------------------------------
(* Token accounts: the layout of spl_token::state::Account *)

\* Account::LEN, the packed length
Account_LEN == 165

\* array_ref![data, offset, len]
Slice(data, offset, len) == SubSeq(data, offset + 1, offset + len)

RECURSIVE to_le_bytes(_, _)
\* n-byte little-endian encoding
to_le_bytes(x, n) ==
    IF n = 0 THEN <<>> ELSE <<x % 256>> \o to_le_bytes(x \div 256, n - 1)

RECURSIVE from_le_bytes(_)
\* u64::from_le_bytes, u32::from_le_bytes
from_le_bytes(bytes) ==
    IF bytes = <<>> THEN 0 ELSE Head(bytes) + 256 * from_le_bytes(Tail(bytes))

\* COption: <<>> is None, <<v>> is Some(v)
COptionNone == <<>>

COptionSome(v) == <<v>>

AccountStates == <<"Uninitialized", "Initialized", "Frozen">>

\* the byte of an AccountState
StateByte(state) == CHOOSE b \in 0..2 : AccountStates[b + 1] = state

pack_coption_key(o) ==
    IF o = COptionNone THEN to_le_bytes(0, 4) \o Pubkey(0)
    ELSE to_le_bytes(1, 4) \o o[1]

pack_coption_u64(o) ==
    IF o = COptionNone THEN to_le_bytes(0, 4) \o to_le_bytes(0, 8)
    ELSE to_le_bytes(1, 4) \o to_le_bytes(o[1], 8)

\* spl_token::state::Account::pack: mint(32), owner(32), amount(8),
\* delegate(4 + 32), state(1), is_native(4 + 8), delegated_amount(8),
\* close_authority(4 + 32)
pack(t) ==
    t.mint \o t.owner \o to_le_bytes(t.amount, 8) \o pack_coption_key(t.delegate)
        \o <<StateByte(t.state)>> \o pack_coption_u64(t.is_native)
        \o to_le_bytes(t.delegated_amount, 8) \o pack_coption_key(t.close_authority)

\* the result of a decode: an error, or Ok with the value
Err(e) == [res |-> e, value |-> <<>>]

Ok(v) == [res |-> "Ok", value |-> <<v>>]

\* the 4-byte tag of a COption is 0 or 1
ValidTag(bytes) == from_le_bytes(bytes) \in {0, 1}

unpack_coption_key(bytes) ==
    IF from_le_bytes(Slice(bytes, 0, 4)) = 0 THEN COptionNone
    ELSE COptionSome(Slice(bytes, 4, PUBKEY_BYTES))

unpack_coption_u64(bytes) ==
    IF from_le_bytes(Slice(bytes, 0, 4)) = 0 THEN COptionNone
    ELSE COptionSome(from_le_bytes(Slice(bytes, 4, 8)))

\* Pack::unpack_unchecked: the length is checked, the fields are decoded
unpack_unchecked(data) ==
    IF Len(data) # Account_LEN THEN Err("InvalidAccountData")
    ELSE IF ~ValidTag(Slice(data, 72, 4)) \/ ~ValidTag(Slice(data, 109, 4))
            \/ ~ValidTag(Slice(data, 129, 4)) \/ Slice(data, 108, 1)[1] > 2
    THEN Err("InvalidAccountData")
    ELSE Ok([mint |-> Slice(data, 0, 32),
             owner |-> Slice(data, 32, 32),
             amount |-> from_le_bytes(Slice(data, 64, 8)),
             delegate |-> unpack_coption_key(Slice(data, 72, 36)),
             state |-> AccountStates[Slice(data, 108, 1)[1] + 1],
             is_native |-> unpack_coption_u64(Slice(data, 109, 12)),
             delegated_amount |-> from_le_bytes(Slice(data, 121, 8)),
             close_authority |-> unpack_coption_key(Slice(data, 129, 36))])

\* IsInitialized for a token account
is_initialized(t) == t.state # "Uninitialized"

\* Pack::unpack: unpack_unchecked, and the account is initialized
unpack(data) ==
    LET r == unpack_unchecked(data)
    IN  IF r.res # "Ok" THEN r
        ELSE IF ~is_initialized(r.value[1]) THEN Err("UninitializedAccount")
        ELSE r

----------------------------------------------------------------------------
(* Account validators *)

\* an account handle of a validator: address, signer flag, owning program, data
Info(key, is_signer, owner, data) ==
    [key |-> key, is_signer |-> is_signer, owner |-> owner, data |-> data]

\* get_associated_token_address(wallet, mint): a derived address, one for
\* every pair (the keys here are told apart by their first byte)
get_associated_token_address(wallet, mint) == Pubkey(16 * wallet[1] + mint[1])

assert_keys_equal(key1, key2) ==
    IF key1 # key2 THEN Err("PublicKeyMismatch") ELSE Ok("unit")

assert_owned_by(account, owner) ==
    IF account.owner # owner THEN Err("IncorrectOwner") ELSE Ok("unit")

assert_initialized(account_info) ==
    LET account == unpack_unchecked(account_info.data)
    IN  IF account.res # "Ok" THEN account
        ELSE IF ~is_initialized(account.value[1]) THEN Err("UninitializedAccount")
        ELSE account

\* mutant of assert_is_ata: the address of the account is not compared
assert_is_ata_any_address(ata, wallet, mint, optional_owner) ==
    LET owned == assert_owned_by(ata, "spl_token")
        ata_account == assert_initialized(ata)
        t == ata_account.value[1]
    IN  IF owned.res # "Ok" THEN owned
        ELSE IF ata_account.res # "Ok" THEN ata_account
        ELSE IF t.owner # optional_owner /\ assert_keys_equal(t.owner, wallet).res # "Ok"
        THEN assert_keys_equal(t.owner, wallet)
        ELSE IF assert_keys_equal(t.mint, mint).res # "Ok"
        THEN assert_keys_equal(t.mint, mint)
        ELSE ata_account

assert_is_ata(ata, wallet, mint, optional_owner) ==
    LET owned == assert_owned_by(ata, "spl_token")
        ata_account == assert_initialized(ata)
        t == ata_account.value[1]
        derived == get_associated_token_address(wallet, mint)
    IN  IF owned.res # "Ok" THEN owned
        ELSE IF ata_account.res # "Ok" THEN ata_account
        ELSE IF t.owner # optional_owner /\ assert_keys_equal(t.owner, wallet).res # "Ok"
        THEN assert_keys_equal(t.owner, wallet)
        ELSE IF assert_keys_equal(t.mint, mint).res # "Ok"
        THEN assert_keys_equal(t.mint, mint)
        ELSE IF assert_keys_equal(derived, ata.key).res # "Ok"
        THEN assert_keys_equal(derived, ata.key)
        ELSE ata_account

\* spl_token::native_mint::id(), a fixed address
native_mint_id == Pubkey(6)

\* mutant of assert_valid_delegation: the delegated amount need only cover paysize
assert_valid_delegation_at_least(src_account, dst_account, src_wallet, dst_wallet, transfer_authority, mint, paysize) ==
    LET unpacked == unpack(src_account.data)
    IN  IF unpacked.res = "Ok" THEN
            LET token_account == unpacked.value[1]
                src_ata == assert_is_ata(src_account, src_wallet.key, mint.key, src_wallet.key)
                dst_ata == assert_is_ata(dst_account, dst_wallet.key, mint.key, dst_wallet.key)
            IN  IF token_account.delegated_amount < paysize
                THEN Err("InvalidAccountState")
                ELSE IF token_account.delegate # COptionSome(transfer_authority.key)
                THEN Err("InvalidAccountState")
                ELSE IF src_ata.res # "Ok" THEN Err(src_ata.res)
                ELSE IF dst_ata.res # "Ok" THEN Err(dst_ata.res)
                ELSE Ok("unit")
        ELSE
            IF mint.key # native_mint_id THEN Err("ExpectedSolAccount")
            ELSE IF ~src_wallet.is_signer THEN Err("SOLWalletMustSign")
            ELSE IF assert_keys_equal(src_wallet.key, src_account.key).res # "Ok"
            THEN assert_keys_equal(src_wallet.key, src_account.key)
            ELSE IF assert_keys_equal(dst_wallet.key, dst_account.key).res # "Ok"
            THEN assert_keys_equal(dst_wallet.key, dst_account.key)
            ELSE Ok("unit")

assert_valid_delegation(src_account, dst_account, src_wallet, dst_wallet, transfer_authority, mint, paysize) ==
    LET unpacked == unpack(src_account.data)
    IN  IF unpacked.res = "Ok" THEN
            LET token_account == unpacked.value[1]
                src_ata == assert_is_ata(src_account, src_wallet.key, mint.key, src_wallet.key)
                dst_ata == assert_is_ata(dst_account, dst_wallet.key, mint.key, dst_wallet.key)
            IN  \* the delegated amount is exactly paysize
                IF token_account.delegated_amount # paysize
                THEN Err("InvalidAccountState")
                \* the authority is the delegate of this token account
                ELSE IF token_account.delegate # COptionSome(transfer_authority.key)
                THEN Err("InvalidAccountState")
                ELSE IF src_ata.res # "Ok" THEN Err(src_ata.res)
                ELSE IF dst_ata.res # "Ok" THEN Err(dst_ata.res)
                ELSE Ok("unit")
        ELSE
            IF mint.key # native_mint_id THEN Err("ExpectedSolAccount")
            ELSE IF ~src_wallet.is_signer THEN Err("SOLWalletMustSign")
            ELSE IF assert_keys_equal(src_wallet.key, src_account.key).res # "Ok"
            THEN assert_keys_equal(src_wallet.key, src_account.key)
            ELSE IF assert_keys_equal(dst_wallet.key, dst_account.key).res # "Ok"
            THEN assert_keys_equal(dst_wallet.key, dst_account.key)
            ELSE Ok("unit")

----------------------------------------------------------------------------
(* Raw layout readers: array_ref! panics when the buffer is too short *)

\* mutant of get_mint_from_token_account: the owner field is read
get_mint_from_token_account_owner(token_account_info) ==
    LET data == token_account_info.data
    IN  IF Len(data) < 64 THEN Err("Panic") ELSE Ok(Slice(data, 32, 32))

get_mint_from_token_account(token_account_info) ==
    LET data == token_account_info.data
    IN  IF Len(data) < 32 THEN Err("Panic") ELSE Ok(Slice(data, 0, 32))

get_delegate_from_token_account(token_account_info) ==
    LET data == token_account_info.data
    IN  IF Len(data) < 108 THEN Err("Panic")
        ELSE LET key_data == Slice(data, 76, 32)
                 coption_data == from_le_bytes(Slice(data, 72, 4))
             IN  IF coption_data = 0 THEN Ok(COptionNone) ELSE Ok(COptionSome(key_data))

get_balance_from_token_account(token_account_info) ==
    LET data == token_account_info.data
    IN  IF Len(data) < 72 THEN Err("Panic")
        ELSE Ok(from_le_bytes(Slice(data, 64, 8)))

----------------------------------------------------------------------------
(* Calls of the validators and readers on token accounts *)

\* a validator or reader returned: no account changes
Returned(op, r) ==
    /\ ret' = [NoCall EXCEPT !.op = op, !.res = r.res, !.value = r.value]
    /\ pre' = acct
    /\ log' = <<>>
    /\ UNCHANGED <<acct, auction_house, args, tx, calls>>

CallAssertIsAta ==
    /\ Running
    /\ args.op = "assert_is_ata"
    /\ Returned("assert_is_ata",
                assert_is_ata(args.ata, args.wallet, args.mint, args.optional_owner))

CallAssertValidDelegation ==
    /\ Running
    /\ args.op = "assert_valid_delegation"
    /\ Returned("assert_valid_delegation",
                assert_valid_delegation(args.src_account, args.dst_account,
                                        args.src_wallet, args.dst_wallet,
                                        args.transfer_authority, args.mint, args.paysize))

CallGetMintFromTokenAccount ==
    /\ Running
    /\ args.op = "readers"
    /\ Returned("get_mint_from_token_account",
                get_mint_from_token_account(args.token_account_info))

CallGetDelegateFromTokenAccount ==
    /\ Running
    /\ args.op = "readers"
    /\ Returned("get_delegate_from_token_account",
                get_delegate_from_token_account(args.token_account_info))

CallGetBalanceFromTokenAccount ==
    /\ Running
    /\ args.op = "readers"
    /\ Returned("get_balance_from_token_account",
                get_balance_from_token_account(args.token_account_info))

\* a token account value
Token(mint, owner, amount, delegate, state, delegated_amount) ==
    [mint |-> Pubkey(mint), owner |-> Pubkey(owner), amount |-> amount,
     delegate |-> delegate, state |-> state, is_native |-> COptionNone,
     delegated_amount |-> delegated_amount, close_authority |-> COptionNone]

\* a buffer with the token value it encodes (<<t>>), or one that encodes none
Encoded(t) == [data |-> pack(t), token |-> <<t>>]

Raw(data) == [data |-> data, token |-> <<>>]

\* buffers that are no token account: no data, the length of a mint, an
\* account state or an option tag out of range
Malformed ==
    LET good == pack(Token(4, 1, 1, COptionNone, "Initialized", 0))
    IN  {Raw(<<>>), Raw(Zeros(82)),
         Raw([good EXCEPT ![109] = 3]), Raw([good EXCEPT ![73] = 2])}

\* the owning program of a buffer: the token program owns what holds data
OwnerOf(data) == IF Len(data) = 0 THEN "system" ELSE "spl_token"

InitAssertIsAta ==
    \E key \in {get_associated_token_address(Pubkey(1), Pubkey(4)),
                get_associated_token_address(Pubkey(2), Pubkey(4)), Pubkey(1)},
       owner \in {"spl_token", "system"},
       b \in {Encoded(Token(m, o, 1, COptionNone, st, 0)) :
                 m \in {4, 6}, o \in 1..3,
                 st \in {"Uninitialized", "Initialized", "Frozen"}} \cup Malformed,
       wallet \in {1, 2}, mint \in {4, 6}, optional_owner \in {1, 3} :
        args = [op |-> "assert_is_ata",
                ata |-> Info(key, FALSE, owner, b.data), token |-> b.token,
                wallet |-> Pubkey(wallet), mint |-> Pubkey(mint),
                optional_owner |-> Pubkey(optional_owner)]

InitAssertValidDelegation ==
    \E src_key \in {get_associated_token_address(Pubkey(1), Pubkey(4)), Pubkey(1)},
       src_owner \in {"spl_token", "system"},
       src \in {Encoded(Token(4, 1, 100, COptionSome(Pubkey(3)), "Initialized", 5)),
                Encoded(Token(4, 1, 100, COptionNone, "Initialized", 5)),
                Encoded(Token(4, 1, 100, COptionSome(Pubkey(3)), "Frozen", 6)),
                Encoded(Token(4, 2, 100, COptionSome(Pubkey(3)), "Initialized", 5)),
                Encoded(Token(4, 1, 0, COptionNone, "Uninitialized", 0)),
                Raw(<<>>)},
       dst_key \in {get_associated_token_address(Pubkey(2), Pubkey(4)), Pubkey(2)},
       dst \in {Encoded(Token(4, 2, 0, COptionNone, "Initialized", 0)),
                Encoded(Token(5, 2, 0, COptionNone, "Initialized", 0)),
                Raw(<<>>)},
       signs \in BOOLEAN, authority \in {1, 3}, mint \in {4, 6}, paysize \in {5, 6} :
        args = [op |-> "assert_valid_delegation",
                src_account |-> Info(src_key, FALSE, src_owner, src.data),
                src_token |-> src.token,
                dst_account |-> Info(dst_key, FALSE, OwnerOf(dst.data), dst.data),
                dst_token |-> dst.token,
                src_wallet |-> Info(Pubkey(1), signs, "system", <<>>),
                dst_wallet |-> Info(Pubkey(2), FALSE, "system", <<>>),
                transfer_authority |-> Info(Pubkey(authority), FALSE, "system", <<>>),
                mint |-> Info(Pubkey(mint), FALSE, "spl_token", Zeros(82)),
                paysize |-> paysize]

\* token balances, u64
Balances == {0, 1, 10004, U64_MAX}

InitReaders ==
    \E b \in {Encoded(Token(m, 1, a, d, st, 0)) :
                 m \in {4, 5}, a \in Balances,
                 d \in {COptionNone, COptionSome(Pubkey(3)), COptionSome(Pubkey(1))},
                 st \in {"Initialized", "Frozen"}}
             \cup {Raw(<<>>), Raw(Zeros(82))} :
        args = [op |-> "readers",
                token_account_info |-> Info(Pubkey(1), FALSE, "spl_token", b.data),
                token |-> b.token]

InitToken ==
    /\ InitAssertIsAta \/ InitAssertValidDelegation \/ InitReaders
    /\ auction_house = DefaultAuctionHouse
    /\ acct = DefaultAccounts
    /\ tx = acct
    /\ pre = acct
    /\ ret = NoCall
    /\ log = <<>>
    /\ calls = 0

NextToken ==
    \/ CallAssertIsAta
    \/ CallAssertValidDelegation
    \/ CallGetMintFromTokenAccount
    \/ CallGetDelegateFromTokenAccount
    \/ CallGetBalanceFromTokenAccount
    \/ Abort

SpecToken == InitToken /\ [][NextToken]_vars

----------------------------------------------------------------------------
(* Claims about the validators of token accounts *)

IsAta == ret.op = "assert_is_ata"

\* the account is owned by the token program, holds an initialized token
\* account, lies at the associated-token address of (wallet, mint), and has
\* the mint, and the wallet or optional_owner as owner
AtaConditions ==
    /\ args.ata.owner = "spl_token"
    /\ args.token # <<>>
    /\ args.token[1].state # "Uninitialized"
    /\ args.ata.key = get_associated_token_address(args.wallet, args.mint)
    /\ args.token[1].mint = args.mint
    /\ args.token[1].owner \in {args.wallet, args.optional_owner}

\* C14 as stated: assert_is_ata succeeds only under these conditions and
\* then returns the decoded token account; otherwise it fails with
\* IncorrectOwner, UninitializedAccount or PublicKeyMismatch.
C14_AsClaimed ==
    IsAta =>
        /\ ret.res = "Ok" => (AtaConditions /\ ret.value = args.token)
        /\ ~AtaConditions =>
              ret.res \in {"IncorrectOwner", "UninitializedAccount", "PublicKeyMismatch"}

\* C14, amended: assert_is_ata succeeds exactly under these conditions and
\* then returns the decoded token account; otherwise it fails with
\* IncorrectOwner (not owned by the token program), else with the token
\* program's InvalidAccountData (the data is no token account buffer), else
\* with UninitializedAccount, else with PublicKeyMismatch.
C14_AssertIsAta ==
    IsAta =>
        /\ ret.res = "Ok" <=> AtaConditions
        /\ ret.res = "Ok" => ret.value = args.token
        /\ ret.res # "Ok" =>
              ret.res = IF args.ata.owner # "spl_token" THEN "IncorrectOwner"
                        ELSE IF args.token = <<>> THEN "InvalidAccountData"
                        ELSE IF args.token[1].state = "Uninitialized"
                        THEN "UninitializedAccount"
                        ELSE "PublicKeyMismatch"

\* an account whose owner field is optional_owner, not the wallet, passed
C14_Witness ==
    /\ IsAta
    /\ ret.res = "Ok"
    /\ ret.value = args.token
    /\ args.token[1].owner = args.optional_owner
    /\ args.token[1].owner # args.wallet
    /\ args.token[1].state = "Frozen"

IsDelegation == ret.op = "assert_valid_delegation"

\* the buffer decodes as a token account: it encodes one that is initialized
Decodes(token) == token # <<>> /\ token[1].state # "Uninitialized"

\* the account is the associated token account of (wallet, mint)
AtaPasses(info, token, wallet, mint) ==
    /\ info.owner = "spl_token"
    /\ Decodes(token)
    /\ token[1].owner = wallet
    /\ token[1].mint = mint
    /\ info.key = get_associated_token_address(wallet, mint)

\* C13: when src decodes as a token account, assert_valid_delegation fails
\* with InvalidAccountState unless delegated_amount = paysize and the
\* delegate is the authority, and then succeeds exactly when src and dst are
\* the associated token accounts of (src_wallet, mint) and (dst_wallet,
\* mint); when src does not decode, it fails with ExpectedSolAccount unless
\* mint is the native mint, else with SOLWalletMustSign unless src_wallet
\* signed, else with PublicKeyMismatch unless the wallets' addresses are
\* those of src and dst, and succeeds otherwise.
C13_AssertValidDelegation ==
    IsDelegation =>
        IF Decodes(args.src_token) THEN
            IF args.src_token[1].delegated_amount # args.paysize
                \/ args.src_token[1].delegate # COptionSome(args.transfer_authority.key)
            THEN ret.res = "InvalidAccountState"
            ELSE /\ ret.res = "Ok" <=>
                       /\ AtaPasses(args.src_account, args.src_token,
                                    args.src_wallet.key, args.mint.key)
                       /\ AtaPasses(args.dst_account, args.dst_token,
                                    args.dst_wallet.key, args.mint.key)
                 /\ ret.res # "InvalidAccountState"
        ELSE
            ret.res = IF args.mint.key # native_mint_id THEN "ExpectedSolAccount"
                      ELSE IF ~args.src_wallet.is_signer THEN "SOLWalletMustSign"
                      ELSE IF args.src_wallet.key # args.src_account.key
                              \/ args.dst_wallet.key # args.dst_account.key
                      THEN "PublicKeyMismatch"
                      ELSE "Ok"

\* a delegation of exactly paysize to the authority, between two associated
\* token accounts, passed
C13_Witness ==
    /\ IsDelegation
    /\ ret.res = "Ok"
    /\ Decodes(args.src_token)
    /\ args.src_token[1].delegated_amount = args.paysize
    /\ args.src_account.key # args.src_wallet.key

\* a native-currency payment signed by the source wallet passed
NativePathPasses ==
    /\ IsDelegation
    /\ ret.res = "Ok"
    /\ ~Decodes(args.src_token)
    /\ args.src_wallet.is_signer

----------------------------------------------------------------------------
(* Claims about the raw layout readers *)

\* C15: on a buffer packed from a token account, get_mint_from_token_account
\* returns the account's mint, the bytes [0,32); get_balance_from_token_account
\* its balance, the little-endian u64 at [64,72); and
\* get_delegate_from_token_account its delegate: none when the 4-byte tag at
\* [72,76) is zero, otherwise the key at [76,108).
C15_RoundTrip ==
    (args.op = "readers" /\ args.token # <<>> /\ ret.op \notin {"none", "abort"}) =>
        LET t == args.token[1]
            data == args.token_account_info.data
        IN  /\ ret.res = "Ok"
            /\ ret.op = "get_mint_from_token_account" =>
                  /\ ret.value = <<t.mint>>
                  /\ t.mint = SubSeq(data, 1, 32)
            /\ ret.op = "get_balance_from_token_account" =>
                  /\ ret.value = <<t.amount>>
                  /\ t.amount = data[65] + 256 * data[66]
                  /\ \A i \in 67..72 : data[i] = 0
            /\ ret.op = "get_delegate_from_token_account" =>
                  /\ ret.value = <<t.delegate>>
                  /\ ret.value[1] = IF SubSeq(data, 73, 76) = Zeros(4) THEN COptionNone
                                    ELSE COptionSome(SubSeq(data, 77, 108))

\* the delegate of an account with a two-byte balance was read back
C15_Witness ==
    /\ ret.op = "get_delegate_from_token_account"
    /\ ret.res = "Ok"
    /\ ret.value = <<COptionSome(Pubkey(3))>>
    /\ args.token # <<>>
    /\ args.token[1].amount = 10004

----------------------------------------------------------------------------
(* Order of the payouts *)

\* the payees a successful payout transfers to, in order
Payees ==
    (IF auction_house.buyer_referral_bp > 0 THEN <<"buyer_referral">> ELSE <<>>)
        \o (IF auction_house.seller_referral_bp > 0 THEN <<"seller_referral">> ELSE <<>>)
        \o <<"treasury">>

\* C16: a successful pay_auction_house_fees has issued its transfers out of
\* the escrow in the order buyer referral, seller referral, treasury: the
\* buyer-referral one exactly when buyer_referral_bp > 0, the
\* seller-referral one exactly when seller_referral_bp > 0, the treasury one
\* once and last, also when its amount is 0; the value returned is the
\* amount of the treasury transfer.
C16_TransferOrder ==
    (IsPay /\ ret.res = "Ok") =>
        /\ Len(log) = Len(Payees)
        /\ \A k \in 1..Len(log) :
              /\ log[k].kind = "transfer"
              /\ log[k].from = "escrow"
              /\ log[k].to = Payees[k]
        /\ log[Len(log)].amount = ret.value

\* both referral fees and then the treasury fee were transferred
C16_Witness ==
    /\ IsPay
    /\ ret.res = "Ok"
    /\ log = <<Instr("transfer", "escrow", "buyer_referral", 50),
               Instr("transfer", "escrow", "seller_referral", 50),
               Instr("transfer", "escrow", "treasury", 100)>>
    /\ ret.value = 100

\* a treasury fee of 0 was transferred after a referral fee
ZeroTreasuryTransferred ==
    /\ IsPay
    /\ ret.res = "Ok"
    /\ Len(log) = 2
    /\ log[1].amount > 0
    /\ log[2] = Instr("transfer", "escrow", "treasury", 0)

----------------------------------------------------------------------------
(* The whole core in one transaction: lifecycle, payout, reclamation, close *)

InitLedger ==
    /\ \E s \in {Wallet(0),
                 Account(1, Record(SellerTradeState_discriminator, SellerTradeState_LEN, 7),
                         "program"),
                 Account(MinSellerV2, Record(SellerTradeStateV2_discriminator,
                                             SellerTradeStateV2_LEN, 7), "program")},
          b \in {Wallet(0),
                 Account(MinBuyerV2 + 1, Record(BuyerTradeState_discriminator,
                                                BuyerTradeState_LEN, 7), "program")},
          p \in {5, 2 * MinBuyerV2 + 5},
          d \in {5, U64_MAX},
          e \in {75, 300} :
          acct = [DefaultAccounts EXCEPT !["sts"] = s, !["bts"] = b,
                                         !["payer"] = Wallet(p), !["dest"] = Wallet(d),
                                         !["escrow"] = Wallet(e)]
    /\ \E t \in {0, 200}, br \in {50}, sr \in {0, 50} :
          auction_house = [seller_fee_basis_points |-> t, buyer_referral_bp |-> br,
                           seller_referral_bp |-> sr]
    /\ args = NoArgs
    /\ tx = acct
    /\ pre = acct
    /\ ret = NoCall
    /\ log = <<>>
    /\ calls = 0

NextLedger ==
    \/ CallSellerTradeState
    \/ CallBuyerTradeState
    \/ CallCloseAccountAnchor
    \/ CallPayAuctionHouseFees
    \/ CallTryCloseBuyerEscrow
    \/ Abort

SpecLedger == InitLedger /\ [][NextLedger]_vars

----------------------------------------------------------------------------
(* Failure of a sub-step *)

RECURSIVE Net(_, _)
\* what a sequence of sub-instructions adds to the balance of account n
Net(n, instrs) ==
    IF instrs = <<>> THEN 0
    ELSE (IF Head(instrs).to = n THEN Head(instrs).amount ELSE 0)
         - (IF Head(instrs).from = n THEN Head(instrs).amount ELSE 0)
         + Net(n, Tail(instrs))

Invoking ==
    LifecycleOps \cup {"pay_auction_house_fees", "try_close_buyer_escrow"}

\* C17: when a sub-step of an operation fails, the operation returns with
\* that error and nothing after the failed sub-step has been executed: the
\* refused sub-instruction is the last one issued, the balances are those
\* the sub-instructions before it left, a payout has issued its transfers in
\* order up to the refused one, a lifecycle routine has not written the
\* discriminator, a close has neither credited dest nor erased the tag; and
\* once the transaction has aborted every account (balance, data, owner)
\* equals its value before the transaction.
C17_FailFastAtomic ==
    /\ ret.op = "abort" => acct = tx
    /\ (ret.op \in Invoking /\ ret.res # "Ok") =>
          /\ \A n \in Accounts : acct[n].lamports = pre[n].lamports + Net(n, Done)
          /\ ret.res \in InvokeErrors => (log # <<>> /\ Done = SubSeq(log, 1, Len(log) - 1))
          /\ ret.res \notin InvokeErrors => Done = log
          /\ IsPay => /\ Len(log) <= Len(Payees)
                      /\ \A k \in 1..Len(log) : log[k].to = Payees[k]
                      /\ ret.res = "NumericalOverflow" =>
                            \A k \in 1..Len(log) : log[k].to # "treasury"
          /\ \A t \in TradeAccounts :
                (ret.op \in LifecycleOps /\ ret.target = t) =>
                    /\ acct[t].owner = pre[t].owner
                    /\ Len(acct[t].data) >= DISCRIMINATOR_LEN =>
                          Tag(acct[t].data) # V2Tag(t)
    /\ \A info \in TradeAccounts :
          Closed(info, "NumericalOverflow") =>
              /\ acct["dest"] = pre["dest"]
              /\ acct[info].data = pre[info].data

\* a migration was zeroed and grown, its top-up was refused, the routine
\* returned the error, and the abort restored the legacy record
C17_Witness ==
    /\ ret.op = "abort"
    /\ acct = tx
    /\ \E t \in TradeAccounts :
          /\ IsV1Shaped(acct[t], t)
          /\ acct[t].data # Zeros(V1Len(t))
          /\ acct[t].lamports < minimum_balance(V2Len(t))
          /\ acct["payer"].lamports < minimum_balance(V2Len(t)) - acct[t].lamports

\* a payout paid a referral fee and was then refused the treasury transfer
PartialPayout ==
    /\ IsPay
    /\ ret.res = "InsufficientFunds"
    /\ Len(log) >= 2
    /\ log[1].amount > 0
    /\ acct["escrow"].lamports < pre["escrow"].lamports

----------------------------------------------------------------------------
(* The two lifecycle routines side by side *)

Other(t) == IF t = "sts" THEN "bts" ELSE "sts"

\* the routine of a trade-state account, applied to the accounts a
Run(t, a) ==
    IF t = "sts" THEN create_or_realloc_seller_trade_state(a)
    ELSE create_or_realloc_buyer_trade_state(a)

\* the shape classes, in the order the routines test them
Class(x, t) ==
    IF Len(x.data) = 0 THEN "empty"
    ELSE IF Len(x.data) = V1Len(t) THEN "legacy"
    ELSE IF Len(x.data) < DISCRIMINATOR_LEN THEN "short"
    ELSE IF Tag(x.data) = V2Tag(t) THEN "current"
    ELSE "unrecognized"

Required(x, t) == saturating_sub(minimum_balance(V2Len(t)), x.lamports)

\* a record as close_account_anchor leaves it
ClosedRecord(t, b) ==
    Account(0, WriteTag(Record(V2Tag(t), V2Len(t), b), Zeros(DISCRIMINATOR_LEN)), "program")

\* the states the other variant's account is started in
Counterparts(u) ==
    (IF u = "sts" THEN SellerStates ELSE BuyerStates)
        \cup {Wallet(0)} \cup {ClosedRecord(u, b) : b \in {0, 7}}

PayerBalances == {0, MinSellerV2 - 1, MinSellerV2, MinBuyerV2, 2 * MinBuyerV2 + 5}

\* the bytes after the discriminator
Payload(d) == {d[i] : i \in (DISCRIMINATOR_LEN + 1)..Len(d)}

\* the call that has just returned (ret, log, acct, from pre) and the call
\* r of the other routine from the accounts b took the same branch, issued
\* the same kinds of sub-instructions in the same order, each from the payer
\* to its own account, ended in corresponding states and returned the same
\* result
SameMachine(t, u, b, r) ==
    /\ ret.res = r.res
    /\ Len(log) = Len(r.log)
    /\ \A k \in 1..Len(log) :
          /\ log[k].kind = r.log[k].kind
          /\ log[k].from = r.log[k].from
          /\ log[k].to = t /\ r.log[k].to = u
    /\ Class(acct[t], t) = Class(r.acct[u], u)
    /\ acct[t].owner = r.acct[u].owner
    /\ (acct[t].data = pre[t].data) <=> (r.acct[u].data = b[u].data)
    /\ acct[t].data # pre[t].data =>
          (Payload(acct[t].data) \subseteq {0} /\ Payload(r.acct[u].data) \subseteq {0})
    /\ (Required(acct[t], t) = 0) <=> (Required(r.acct[u], u) = 0)
    /\ (acct["payer"] = pre["payer"]) <=> (r.acct["payer"] = b["payer"])

\* each sub-instruction moves the lamports its own account was short of
OwnAmounts(t, u, b, r) ==
    \A k \in 1..Len(log) :
        /\ log[k].amount = Required(pre[t], t)
        /\ r.log[k].amount = Required(b[u], u)

\* C18 as claimed: corresponding starting states are those of the same shape
\* class with the same balance (and the same payer)
C18_AsClaimed ==
    \A t \in TradeAccounts :
        (ret.op \in LifecycleOps /\ ret.target = t) =>
            \A y \in Counterparts(Other(t)) :
                (/\ Class(y, Other(t)) = Class(pre[t], t)
                 /\ y.owner = pre[t].owner
                 /\ y.lamports = pre[t].lamports) =>
                    LET b == [pre EXCEPT ![Other(t)] = y]
                    IN  SameMachine(t, Other(t), b, Run(Other(t), b))

\* the starting states on which the two routines decide alike: same shape
\* class and owner, balance zero in both or positive in both, at least the
\* own V2 rent-exempt minimum in both or below it in both, and a payer that
\* covers the amount missing in both or in neither
Corresponding(x, t, p, y, u, q) ==
    /\ Class(y, u) = Class(x, t)
    /\ y.owner = x.owner
    /\ (y.lamports = 0) <=> (x.lamports = 0)
    /\ (Required(y, u) = 0) <=> (Required(x, t) = 0)
    /\ (q >= Required(y, u)) <=> (p >= Required(x, t))

\* C18: the seller and the buyer lifecycle routine, run from corresponding
\* starting states (same shape class for the own V1 length, V2 length and V2
\* discriminator, balance zero in both or positive in both and short of the
\* own rent-exempt minimum in both or in neither, payer covering the missing
\* amount of both or of neither), take the same branch, issue the same
\* sequence of sub-instructions (same kinds, from the payer to the own
\* account, for the own missing amount), and end in corresponding states
\* with the same success or error result.
C18_SameStateMachine ==
    \A t \in TradeAccounts :
        (ret.op \in LifecycleOps /\ ret.target = t) =>
            \A y \in Counterparts(Other(t)), q \in PayerBalances :
                Corresponding(pre[t], t, pre["payer"].lamports, y, Other(t), q) =>
                    LET b == [pre EXCEPT ![Other(t)] = y, !["payer"].lamports = q]
                        r == Run(Other(t), b)
                    IN  /\ SameMachine(t, Other(t), b, r)
                        /\ OwnAmounts(t, Other(t), b, r)

\* a legacy seller record was migrated with a top-up, and a legacy buyer
\* record of another balance, short of its own minimum by another amount,
\* corresponds to it
C18_Witness ==
    /\ Lifecycle("sts", "Ok")
    /\ Class(pre["sts"], "sts") = "legacy"
    /\ Len(log) = 1
    /\ \E y \in Counterparts("bts"), q \in PayerBalances :
          /\ Corresponding(pre["sts"], "sts", pre["payer"].lamports, y, "bts", q)
          /\ y.lamports # pre["sts"].lamports
          /\ Required(y, "bts") # Required(pre["sts"], "sts")
          /\ Run("bts", [pre EXCEPT !["bts"] = y, !["payer"].lamports = q]).res = "Ok"

----------------------------------------------------------------------------
(* Conservation of lamports *)

RECURSIVE TotalLamports(_, _)
\* the sum of the balances of the accounts S in a
TotalLamports(a, S) ==
    IF S = {} THEN 0
    ELSE LET n == CHOOSE x \in S : TRUE
         IN  a[n].lamports + TotalLamports(a, S \ {n})

\* C19: after any sequence of successful pay_auction_house_fees,
\* try_close_buyer_escrow, close_account_anchor and lifecycle-routine calls
\* the sum of the lamport balances of all participating accounts equals the
\* sum before the sequence, and every single successful call leaves the sum
\* as it found it.
C19_LamportConservation ==
    ret.res = "Ok" =>
        /\ TotalLamports(acct, Accounts) = TotalLamports(tx, Accounts)
        /\ TotalLamports(acct, Accounts) = TotalLamports(pre, Accounts)

\* a payout, an escrow reclamation, a creation and a close have succeeded in
\* one transaction and each has moved lamports
C19_Witness ==
    /\ Closed("sts", "Ok") \/ Closed("bts", "Ok")
    /\ acct["treasury"].lamports > tx["treasury"].lamports
    /\ acct["buyer"].lamports > tx["buyer"].lamports
    /\ acct["payer"].lamports < tx["payer"].lamports
    /\ acct["dest"].lamports > tx["dest"].lamports

----------------------------------------------------------------------------
(* Closed records *)

\* a V2-sized buffer whose first 8 bytes are zero
TagErased(x, t) ==
    Len(x.data) = V2Len(t) /\ Tag(x.data) = Zeros(DISCRIMINATOR_LEN)

\* C20: close_account_anchor leaves a V2 trade-state account V2-sized with
\* its first 8 bytes zero and no lamports; every later lifecycle call on
\* such an account in the transaction fails with InvalidAccountState,
\* issues no sub-instruction and changes no account (it neither re-tags nor
\* re-funds); and a lifecycle call that succeeds on an account that is not
\* V2-shaped has found it empty or legacy-sized, never tag-erased, so a
\* closed record is accepted again only once its data is empty.
C20_ClosedNotRevived ==
    [][\A t \in TradeAccounts :
          /\ (Closed(t, "Ok") /\ IsV2Shaped(pre[t], t)) =>
                (TagErased(acct[t], t) /\ acct[t].lamports = 0)
          /\ (LifecycleStep(t) /\ TagErased(acct[t], t)) =>
                /\ ret'.res = "InvalidAccountState"
                /\ acct' = acct
                /\ log' = <<>>
          /\ (TagErased(acct[t], t) /\ ret'.op # "abort") => acct'[t] = acct[t]
          /\ (LifecycleStep(t) /\ ret'.res = "Ok" /\ ~IsV2Shaped(acct[t], t)) =>
                (IsEmpty(acct[t]) \/ IsV1Shaped(acct[t], t))]_vars

\* a V2 record of the transaction was closed, and the lifecycle routine then
\* refused the buffer the close left and changed nothing
C20_Witness ==
    \E t \in TradeAccounts :
        /\ Lifecycle(t, "InvalidAccountState")
        /\ IsV2Shaped(tx[t], t)
        /\ TagErased(pre[t], t)
        /\ pre[t].lamports = 0
        /\ pre["dest"].lamports = tx["dest"].lamports + tx[t].lamports
        /\ acct = pre
        /\ acct["payer"].lamports >= minimum_balance(V2Len(t))

\* an account with empty data and no lamports is created anew
EmptyAccepted ==
    \E t \in TradeAccounts :
        /\ Lifecycle(t, "Ok")
        /\ IsEmpty(pre[t])
        /\ IsV2Shaped(acct[t], t)

----------------------------------------------------------------------------
(* A close that overflows *)

\* dest's balance plus info's balance does not fit 64 bits
Overflows(a, info, dest) == a[dest].lamports + a[info].lamports > U64_MAX

\* C21: close_account_anchor returns NumericalOverflow exactly when dest's
\* balance plus info's balance overflows 64 bits, and it then leaves dest's
\* balance and info's data (the 8-byte tag included) unchanged and info's
\* balance at 0: the function has not restored info's balance, the lamports
\* info held are in no account, and every other account is as before.
C21_CloseOverflow ==
    \A info \in TradeAccounts :
        /\ (ret.op = "close_account_anchor" /\ ret.target = info) =>
              (ret.res = "NumericalOverflow" <=> Overflows(pre, info, "dest"))
        /\ Closed(info, "NumericalOverflow") =>
              /\ acct["dest"] = pre["dest"]
              /\ acct[info].data = pre[info].data
              /\ acct[info].owner = pre[info].owner
              /\ acct[info].lamports = 0
              /\ pre[info].lamports > 0
              /\ \A n \in Accounts \ {info} : acct[n] = pre[n]
              /\ TotalLamports(acct, Accounts) =
                    TotalLamports(pre, Accounts) - pre[info].lamports

\* a funded V2 record was closed into a full destination: the call failed,
\* the record keeps its tag and has lost its balance
C21_Witness ==
    \E info \in TradeAccounts :
        /\ Closed(info, "NumericalOverflow")
        /\ IsV2Shaped(pre[info], info)
        /\ IsV2Shaped(acct[info], info)
        /\ pre[info].lamports >= minimum_balance(V2Len(info))
        /\ acct[info].lamports = 0
        /\ acct["dest"].lamports = U64_MAX

\* the balance a failed close has taken comes back with the abort only
RecoveredByAbort ==
    [][\A info \in TradeAccounts :
          Closed(info, "NumericalOverflow") =>
              /\ acct[info] # tx[info]
              /\ ret'.op = "abort"
              /\ acct' = tx]_vars

----------------------------------------------------------------------------
(* Fee override *)

\* crate::constants
DEFAULT_MAKER_FEE_BP == 0

DEFAULT_TAKER_FEE_BP == 250

I16_MIN == 0 - (2 ^ 15)

I16_MAX == (2 ^ 15) - 1

\* mutant of get_actual_maker_taker_fee_bp: the taker fee is taken as supplied
get_actual_maker_taker_fee_bp_taker_supplied(notary, maker_fee_bp, taker_fee_bp) ==
    IF notary.is_signer THEN <<maker_fee_bp, taker_fee_bp>>
    ELSE <<DEFAULT_MAKER_FEE_BP, taker_fee_bp>>

\* get_actual_maker_taker_fee_bp(notary, maker_fee_bp, taker_fee_bp)
get_actual_maker_taker_fee_bp(notary, maker_fee_bp, taker_fee_bp) ==
    IF notary.is_signer THEN <<maker_fee_bp, taker_fee_bp>>
    ELSE <<DEFAULT_MAKER_FEE_BP, DEFAULT_TAKER_FEE_BP>>

CallGetActualMakerTakerFeeBp ==
    /\ Running
    /\ args.op = "get_actual_maker_taker_fee_bp"
    /\ Returned("get_actual_maker_taker_fee_bp",
                [res |-> "Ok",
                 value |-> get_actual_maker_taker_fee_bp(args.notary, args.maker_fee_bp,
                                                         args.taker_fee_bp)])

\* maker_fee_bp: i16 (a rebate when negative)
MakerFees == {I16_MIN, 0 - 1, 0, 1, 250, I16_MAX}

\* taker_fee_bp: u16
TakerFees == {0, 1, 250, 251, U16_MAX}

InitFee ==
    /\ \E k \in {1, 2}, s \in BOOLEAN, m \in MakerFees, t \in TakerFees :
          args = [op |-> "get_actual_maker_taker_fee_bp",
                  notary |-> [key |-> Pubkey(k), is_signer |-> s],
                  maker_fee_bp |-> m, taker_fee_bp |-> t]
    /\ auction_house = DefaultAuctionHouse
    /\ acct = DefaultAccounts
    /\ tx = acct
    /\ pre = acct
    /\ ret = NoCall
    /\ log = <<>>
    /\ calls = 0

NextFee == CallGetActualMakerTakerFeeBp

SpecFee == InitFee /\ [][NextFee]_vars

IsFee == ret.op = "get_actual_maker_taker_fee_bp"

Supplied == <<args.maker_fee_bp, args.taker_fee_bp>>

Defaults == <<DEFAULT_MAKER_FEE_BP, DEFAULT_TAKER_FEE_BP>>

\* C22 as claimed: the supplied pair is returned unchanged if and only if
\* the notary is a signer, and the defaults whenever it is not
C22_AsClaimed ==
    IsFee =>
        /\ (ret.value = Supplied) <=> args.notary.is_signer
        /\ ~args.notary.is_signer => ret.value = Defaults

\* C22: get_actual_maker_taker_fee_bp returns the supplied pair unchanged
\* when the notary account is a signer and the default pair, whatever was
\* supplied, when it is not; so without the signature the result is the
\* supplied pair only when the supplied pair is the default pair, and a pair
\* other than the defaults is returned only with the signature.
C22_FeeOverride ==
    IsFee =>
        /\ ret.res = "Ok"
        /\ args.notary.is_signer => ret.value = Supplied
        /\ ~args.notary.is_signer => ret.value = Defaults
        /\ (ret.value = Supplied) <=> (args.notary.is_signer \/ Supplied = Defaults)
        /\ ret.value # Defaults => args.notary.is_signer

\* an unsigned call that supplied other fees (a maker rebate) got the defaults
C22_Witness ==
    /\ IsFee
    /\ ~args.notary.is_signer
    /\ args.maker_fee_bp < 0
    /\ args.taker_fee_bp # DEFAULT_TAKER_FEE_BP
    /\ ret.value = Defaults

\* a signed call got the fees it supplied
OverrideApplied ==
    /\ IsFee
    /\ args.notary.is_signer
    /\ ret.value = Supplied
    /\ Supplied # Defaults

====
